---------------------------- MODULE Spec2Model ----------------------------
(***************************************************************************)
(* Store-Backend: cart mutation, checkout, order lifecycle and refund.     *)
(*                                                                         *)
(* The database is the state.  Money is kept in cents (Decimal with two    *)
(* places); python None is the value None below.  Rows are records, tables *)
(* are sets of rows (append-only logs are sequences).                      *)
(***************************************************************************)
EXTENDS Integers, Sequences, FiniteSets, TLC

(***************************************************************************)
(* Bounds of the model.                                                    *)
(***************************************************************************)
MaxStock == 3
MaxCartQty == 100
MaxOrders == 1
MaxLines == 2
MaxHist == 3
MaxEvents == 4
MaxCheckouts == 2

(***************************************************************************)
(* Program constants.                                                      *)
(***************************************************************************)
None == 0
MAX_QUANTITY == 99

TAX_PERCENT == 8
FREE_SHIPPING_FROM == 5000
EXPRESS_COST == 1599
OVERNIGHT_COST == 2999

Users == {1, 2}
Procs == {1, 2}
ProductIds == {1, 2, 3}
VariantIds == {1, 2}
\* ids no row has
MissingProductId == Cardinality(ProductIds) + 1
MissingVariantId == Cardinality(VariantIds) + 1

(***************************************************************************)
(* State.                                                                  *)
(***************************************************************************)
VARIABLES
    products,      \* Product rows: id -> [is_active, track_quantity, quantity, price]
    variants,      \* ProductVariant rows: id -> [product, is_active, quantity, price]
    carts,         \* Cart rows: the users that own a cart (one-to-one)
    cartItems,     \* CartItem rows
    expectedQty,   \* history: per (user, product, variant), the quantity the calls made so far add up to
    orders,        \* Order rows
    orderItems,    \* OrderItem rows
    transactions,  \* Transaction rows
    statusHistory, \* OrderStatusHistory rows, in the order they were appended
    deliveryEvents,\* DeliveryEvent rows, in the order they were appended
    pc,            \* per request worker: where its checkout request stands
    req,           \* per request worker: the checkout request it is serving
    tx,            \* per request worker: the writes of its open database transaction
    cur,           \* per request worker: the line being created and the product row read for it
    snap,          \* history: per request worker, the committed rows when its checkout began
    response       \* the last response sent: the call and its HTTP status

cartVars == <<carts, cartItems, expectedQty>>
catalogVars == <<products, variants>>
orderVars == <<orders, orderItems, transactions, statusHistory, deliveryEvents>>
workerVars == <<pc, req, tx, cur, snap>>
vars == <<products, variants, carts, cartItems, expectedQty, orders, orderItems,
          transactions, statusHistory, deliveryEvents, pc, req, tx, cur, snap, response>>

(***************************************************************************)
(* Catalog.  Product 1 tracks its stock and has variant 1 (own stock, no   *)
(* price of its own); product 2 does not track stock and has variant 2;    *)
(* product 3 is inactive.                                                  *)
(***************************************************************************)
StockChoices ==
    {<<MaxStock, MaxStock>>, <<MaxStock, 1>>, <<1, MaxStock>>}

Catalog(pq, vq) ==
    [products |->
        (1 :> [is_active |-> TRUE, track_quantity |-> TRUE, quantity |-> pq, price |-> 1999,
               name |-> "mug", sku |-> "PRD-1"]
      @@ 2 :> [is_active |-> TRUE, track_quantity |-> FALSE, quantity |-> 1, price |-> 550,
               name |-> "e-book", sku |-> "PRD-2"]
      @@ 3 :> [is_active |-> FALSE, track_quantity |-> TRUE, quantity |-> MaxStock, price |-> 10000,
               name |-> "lamp", sku |-> "PRD-3"]),
     variants |->
        (1 :> [product |-> 1, is_active |-> TRUE, quantity |-> vq, price |-> None, sku |-> "PRD-1-A"]
      @@ 2 :> [product |-> 2, is_active |-> TRUE, quantity |-> 0, price |-> 700, sku |-> "PRD-2-A"])]

\* ProductVariant.effective_price
effective_price(v) ==
    IF variants[v].price # 0 THEN variants[v].price ELSE products[variants[v].product].price

(***************************************************************************)
(* Cart Store.                                                             *)
(***************************************************************************)
Pairs == (ProductIds \X (VariantIds \cup {None}))

\* A fresh primary key: rows are told apart by it and nothing else reads it.
NextId(rows) ==
    CHOOSE i \in 1..(Cardinality(rows) + 1) : \A r \in rows : r.id # i

\* CartItem.objects.filter(cart=cart, product=product, variant=variant)
ItemsOf(u, pid, vid) ==
    {it \in cartItems : it.user = u /\ it.product = pid /\ it.variant = vid}

QtyOf(u, pid, vid) ==
    IF ItemsOf(u, pid, vid) = {} THEN 0
    ELSE (CHOOSE it \in ItemsOf(u, pid, vid) : TRUE).quantity

available_stock_of_product(pid, vid) ==
    products[pid].quantity

\* the stock a cart line is held against: the variant's when it has one
available_stock(pid, vid) ==
    IF vid # None THEN variants[vid].quantity ELSE products[pid].quantity

\* AddToCartSerializer: field validators, then validate()
AddToCartValid(pid, vid, q) ==
    /\ pid \in ProductIds /\ products[pid].is_active
    /\ vid # None => (vid \in VariantIds /\ variants[vid].is_active)
    /\ q > 0 /\ q <= MAX_QUANTITY
    /\ products[pid].track_quantity => q <= available_stock(pid, vid)
    /\ vid # None => variants[vid].product = pid

\* CartItem.save(): the price snapshot is taken while the field is unset (or zero)
SavedPrice(current, pid, vid) ==
    IF current # 0 THEN current
    ELSE IF vid # None THEN effective_price(vid) ELSE products[pid].price

new_quantity_replaces(old, q) ==
    q

\* the quantity written back when the item is already in the cart
new_quantity(old, q) ==
    old + q

\* POST cart/add/
AddToCart(u, pid, vid, q) ==
    /\ QtyOf(u, IF pid \in ProductIds THEN pid ELSE 1, IF vid \in VariantIds THEN vid ELSE None) + q <= MaxCartQty
    /\ UNCHANGED <<catalogVars, orderVars, workerVars, response>>
    /\ IF ~AddToCartValid(pid, vid, q)
       THEN UNCHANGED <<carts, cartItems, expectedQty>>
       ELSE LET existing == ItemsOf(u, pid, vid) IN
            /\ carts' = carts \cup {u}
            /\ IF Cardinality(existing) > 1
               THEN UNCHANGED <<cartItems, expectedQty>>
               ELSE IF existing # {}
               THEN LET it == CHOOSE x \in existing : TRUE
                        nq == new_quantity(it.quantity, q) IN
                    IF products[pid].track_quantity /\ nq > available_stock(pid, vid)
                    THEN UNCHANGED <<cartItems, expectedQty>>
                    ELSE /\ cartItems' = (cartItems \ {it}) \cup
                                {[it EXCEPT !.quantity = nq,
                                            !.price_when_added = SavedPrice(@, pid, vid)]}
                         /\ expectedQty' = [expectedQty EXCEPT ![<<u, pid, vid>>] = @ + q]
               ELSE /\ cartItems' = cartItems \cup
                            {[id |-> NextId(cartItems), user |-> u, product |-> pid,
                              variant |-> vid, quantity |-> q,
                              price_when_added |-> SavedPrice(0, pid, vid)]}
                    /\ expectedQty' = [expectedQty EXCEPT ![<<u, pid, vid>>] = @ + q]

\* POST cart/quick-add/<product_id>/
quick_add_to_cart(u, pid) ==
    /\ QtyOf(u, IF pid \in ProductIds THEN pid ELSE 1, None) + 1 <= MaxCartQty
    /\ UNCHANGED <<catalogVars, orderVars, workerVars, response>>
    /\ IF ~(pid \in ProductIds /\ products[pid].is_active)
       THEN UNCHANGED <<carts, cartItems, expectedQty>>
       ELSE IF products[pid].track_quantity /\ products[pid].quantity <= 0
       THEN UNCHANGED <<carts, cartItems, expectedQty>>
       ELSE LET existing == ItemsOf(u, pid, None) IN
            /\ carts' = carts \cup {u}
            /\ IF Cardinality(existing) > 1
               THEN UNCHANGED <<cartItems, expectedQty>>
               ELSE IF existing # {}
               THEN LET it == CHOOSE x \in existing : TRUE IN
                    IF products[pid].track_quantity /\ it.quantity >= products[pid].quantity
                    THEN UNCHANGED <<cartItems, expectedQty>>
                    ELSE /\ cartItems' = (cartItems \ {it}) \cup
                                {[it EXCEPT !.quantity = @ + 1,
                                            !.price_when_added = SavedPrice(@, pid, None)]}
                         /\ expectedQty' = [expectedQty EXCEPT ![<<u, pid, None>>] = @ + 1]
               ELSE /\ cartItems' = cartItems \cup
                            {[id |-> NextId(cartItems), user |-> u, product |-> pid,
                              variant |-> None, quantity |-> 1,
                              price_when_added |-> SavedPrice(0, pid, None)]}
                    /\ expectedQty' = [expectedQty EXCEPT ![<<u, pid, None>>] = @ + 1]

OwnCartItemsOrAnyones(u, id) ==
    {it \in cartItems : it.id = id}

\* get_queryset of the item views: CartItem.objects.filter(cart__user=request.user)
OwnCartItems(u, id) ==
    {it \in cartItems : it.id = id /\ it.user = u}

\* PUT cart/items/<pk>/ : get_object() among the caller's own items answers 404,
\* then the serializer and the stock check answer 400
UpdateCartItem(u, id, q) ==
    /\ UNCHANGED <<catalogVars, carts, orderVars, workerVars>>
    /\ LET own == OwnCartItems(u, id) IN
       IF own = {}
       THEN /\ response' = [op |-> "update_item", code |-> 404, error |-> "not_found"]
            /\ UNCHANGED <<cartItems, expectedQty>>
       ELSE IF ~(q > 0 /\ q <= MAX_QUANTITY)
       THEN /\ response' = [op |-> "update_item", code |-> 400, error |-> "quantity"]
            /\ UNCHANGED <<cartItems, expectedQty>>
       ELSE LET it == CHOOSE x \in own : TRUE IN
            IF products[it.product].track_quantity
               /\ q > available_stock(it.product, it.variant)
            THEN /\ response' = [op |-> "update_item", code |-> 400, error |-> "stock"]
                 /\ UNCHANGED <<cartItems, expectedQty>>
            ELSE /\ cartItems' = (cartItems \ {it}) \cup
                        {[it EXCEPT !.quantity = q,
                                    !.price_when_added = SavedPrice(@, it.product, it.variant)]}
                 /\ expectedQty' = [expectedQty EXCEPT ![<<u, it.product, it.variant>>] = q]
                 /\ response' = [op |-> "update_item", code |-> 200, error |-> ""]

\* DELETE cart/items/<pk>/remove/
RemoveCartItem(u, id) ==
    /\ UNCHANGED <<catalogVars, carts, orderVars, workerVars>>
    /\ LET own == OwnCartItems(u, id) IN
       IF own = {}
       THEN /\ response' = [op |-> "remove_item", code |-> 404, error |-> "not_found"]
            /\ UNCHANGED <<cartItems, expectedQty>>
       ELSE LET it == CHOOSE x \in own : TRUE IN
            /\ cartItems' = cartItems \ {it}
            /\ expectedQty' = [expectedQty EXCEPT ![<<u, it.product, it.variant>>] = 0]
            /\ response' = [op |-> "remove_item", code |-> 200, error |-> ""]

\* DELETE cart/clear/
ClearCart(u) ==
    /\ UNCHANGED <<catalogVars, carts, orderVars, workerVars, response>>
    /\ IF u \notin carts
       THEN UNCHANGED <<cartItems, expectedQty>>
       ELSE /\ cartItems' = {it \in cartItems : it.user # u}
            /\ expectedQty' = [k \in DOMAIN expectedQty |-> IF k[1] = u THEN 0 ELSE expectedQty[k]]

(***************************************************************************)
(* Catalog: the admin edits a price (ProductAdmin, ProductVariantInline).  *)
(* A price is a non-negative DecimalField; a variant's may be left blank.  *)
(***************************************************************************)
SetProductPrice(pid, price) ==
    /\ products' = [products EXCEPT ![pid].price = price]
    /\ UNCHANGED <<variants, cartVars, orderVars, workerVars, response>>

SetVariantPrice(vid, price) ==
    /\ variants' = [variants EXCEPT ![vid].price = price]
    /\ UNCHANGED <<products, cartVars, orderVars, workerVars, response>>

\* the product's form: name is editable, sku is among the readonly_fields
SetProductName(pid, name) ==
    /\ products' = [products EXCEPT ![pid].name = name]
    /\ UNCHANGED <<variants, cartVars, orderVars, workerVars, response>>

\* the variant inline: sku is editable
SetVariantSku(vid, sku) ==
    /\ variants' = [variants EXCEPT ![vid].sku = sku]
    /\ UNCHANGED <<products, cartVars, orderVars, workerVars, response>>

(***************************************************************************)
(* Order Assembler: POST orders/create/.                                   *)
(*                                                                         *)
(* A checkout request is served in steps so that two requests can          *)
(* interleave: the validation and the Order insert, then for every line    *)
(* the read of its Product row and the OrderItem insert with the stock     *)
(* write, then the payment, the side records and the commit.  The request  *)
(* runs in one database transaction (READ COMMITTED): its writes are kept  *)
(* in tx[p], seen by the request itself only, and reach the tables at      *)
(* commit.  A stock write holds the Product row until the transaction      *)
(* ends.                                                                   *)
(***************************************************************************)
Statuses ==
    {"pending", "confirmed", "processing", "shipped", "delivered", "cancelled", "refunded"}

EmptyTx ==
    [orders |-> {}, paid |-> {}, items |-> {}, txns |-> {}, hist |-> <<>>,
     events |-> <<>>, stock |-> <<>>]

NoReq ==
    [user |-> 0, items |-> <<>>, payment |-> FALSE, method |-> "", subtotal |-> <<>>,
     shipping_cost |-> <<>>, tax_amount |-> <<>>, total_amount |-> <<>>]

NoCur ==
    [i |-> 0, order |-> 0, quantity |-> 0]

\* the committed rows a checkout can change
Committed ==
    [orders |-> orders, orderItems |-> orderItems, transactions |-> transactions,
     statusHistory |-> statusHistory, deliveryEvents |-> deliveryEvents,
     products |-> products]

\* the writes d reach the tables
Flush(d) ==
    /\ orders' = {IF o.id \in d.paid THEN [o EXCEPT !.payment_status = "completed"] ELSE o :
                    o \in orders \cup d.orders}
    /\ orderItems' = orderItems \cup d.items
    /\ transactions' = transactions \cup d.txns
    /\ statusHistory' = statusHistory \o d.hist
    /\ deliveryEvents' = deliveryEvents \o d.events
    /\ products' = [pid \in ProductIds |->
                      IF pid \in DOMAIN d.stock
                      THEN [products[pid] EXCEPT !.quantity = d.stock[pid]]
                      ELSE products[pid]]

\* a statement inside `with db_transaction.atomic()`: its writes wait for the commit
Stmt(p, d) ==
    /\ tx' = [tx EXCEPT ![p] = d]
    /\ UNCHANGED <<orderVars, products>>

\* leaving the atomic block normally
Commit(p, d) ==
    /\ tx' = [tx EXCEPT ![p] = EmptyTx]
    /\ Flush(d)

AbortKeepsWrites(p, d) ==
    /\ tx' = [tx EXCEPT ![p] = EmptyTx]
    /\ Flush(d)

\* leaving the atomic block by an exception: the writes d made so far are rolled back
Abort(p, d) ==
    /\ tx' = [tx EXCEPT ![p] = EmptyTx]
    /\ UNCHANGED <<orderVars, products>>

\* OrderItemCreateSerializer: validate_product_id, validate_variant_id, validate_quantity
\* and the model validator of unit_price
LineValid(l) ==
    /\ l.product_id \in ProductIds /\ products[l.product_id].is_active
    /\ l.variant_id # None => (l.variant_id \in VariantIds /\ variants[l.variant_id].is_active)
    /\ l.quantity > 0
    /\ l.unit_price >= 0

track_quantity_ignored(pid) ==
    TRUE

\* `if product.track_quantity`: the stock check and the decrement are for tracked products
track_quantity(pid) ==
    products[pid].track_quantity

\* OrderCreateSerializer.validate_items, one line: the stock check reads the Product row
StockValid(l) ==
    track_quantity(l.product_id) => l.quantity <= products[l.product_id].quantity

\* serializer.is_valid()
CheckoutValid(r) ==
    /\ Len(r.items) > 0
    /\ \A i \in 1..Len(r.items) : LineValid(r.items[i])
    /\ \A i \in 1..Len(r.items) : StockValid(r.items[i])

\* OrderCreateSerializer._normalize_shipping_method
normalize_shipping_method(m) ==
    CASE m = "Standard Shipping" -> "standard"
      [] m = "Express Shipping" -> "express"
      [] m = "Overnight Shipping" -> "overnight"
      [] m \in {"standard", "express", "overnight"} -> m
      [] OTHER -> "standard"

\* OrderCreateSerializer._get_shipping_cost
get_shipping_cost(method, subtotal) ==
    LET cost == CASE method = "express" -> EXPRESS_COST
                  [] method = "overnight" -> OVERNIGHT_COST
                  [] OTHER -> 0
    IN IF method = "standard" /\ subtotal >= FREE_SHIPPING_FROM THEN 0 ELSE cost

\* a Decimal of four places (x hundredths of a cent) saved in a DecimalField of two:
\* quantize, ROUND_HALF_EVEN
RoundCents(x) ==
    LET q == x \div 100
        r == x % 100
    IN IF r > 50 \/ (r = 50 /\ q % 2 = 1) THEN q + 1 ELSE q

\* the unit price of a line: the caller's, else the variant's effective price, else the product's
UnitPrice(l) ==
    IF l.unit_price # 0 THEN l.unit_price
    ELSE IF l.variant_id # None THEN effective_price(l.variant_id)
    ELSE products[l.product_id].price

RECURSIVE SumLines(_)
SumLines(items) ==
    IF items = <<>> THEN 0
    ELSE UnitPrice(Head(items)) * Head(items).quantity + SumLines(Tail(items))

\* `if frontend_subtotal:` the caller's subtotal unless absent or zero, else the sum of the lines
calc_subtotal(r) ==
    IF r.subtotal # <<>> /\ r.subtotal[1] # 0 THEN r.subtotal[1] ELSE SumLines(r.items)

\* `if frontend_shipping_cost is not None:` the caller's shipping cost, else the table's
calc_shipping_cost(r, method, subtotal) ==
    IF r.shipping_cost # <<>> THEN r.shipping_cost[1] ELSE get_shipping_cost(method, subtotal)

calc_tax_amount_unless_falsy(r, subtotal) ==
    IF r.tax_amount # <<>> /\ r.tax_amount[1] # 0 THEN r.tax_amount[1] * 100
    ELSE subtotal * TAX_PERCENT

\* `if frontend_tax is not None:` the caller's tax, else subtotal * Decimal('0.08'); in
\* hundredths of a cent
calc_tax_amount(r, subtotal) ==
    IF r.tax_amount # <<>> THEN r.tax_amount[1] * 100 ELSE subtotal * TAX_PERCENT

calc_total_amount_without_tax(r, subtotal, shipping, tax100) ==
    IF r.total_amount # <<>> THEN r.total_amount[1] * 100
    ELSE (subtotal + shipping) * 100

\* `if frontend_total is not None:` the caller's total, else subtotal + shipping_cost +
\* tax_amount; in hundredths of a cent
calc_total_amount(r, subtotal, shipping, tax100) ==
    IF r.total_amount # <<>> THEN r.total_amount[1] * 100
    ELSE (subtotal + shipping) * 100 + tax100

\* the money fields of the new Order, as stored
Totals(r) ==
    LET method == normalize_shipping_method(r.method)
        subtotal == calc_subtotal(r)
        shipping == calc_shipping_cost(r, method, subtotal)
        tax100 == calc_tax_amount(r, subtotal)
        total100 == calc_total_amount(r, subtotal, shipping, tax100)
    IN [shipping_method |-> method, subtotal |-> subtotal, shipping_cost |-> shipping,
        tax_amount |-> RoundCents(tax100), total_amount |-> RoundCents(total100)]

AllOrders ==
    orders \cup UNION {tx[w].orders : w \in Procs}

AllOrderItems ==
    orderItems \cup UNION {tx[w].items : w \in Procs}

AllTransactions ==
    transactions \cup UNION {tx[w].txns : w \in Procs}

\* super().create(validated_data): the Order row, status and payment_status at their defaults
NewOrder(r) ==
    LET t == Totals(r) IN
    [id |-> NextId(AllOrders), user |-> r.user, status |-> "pending",
     payment_status |-> "pending", shipping_method |-> t.shipping_method,
     subtotal |-> t.subtotal, shipping_cost |-> t.shipping_cost,
     tax_amount |-> t.tax_amount, total_amount |-> t.total_amount]

Reset(p) ==
    /\ pc' = [pc EXCEPT ![p] = "idle"]
    /\ req' = [req EXCEPT ![p] = NoReq]
    /\ cur' = [cur EXCEPT ![p] = NoCur]
    /\ snap' = [snap EXCEPT ![p] = <<>>]

\* is_valid(), the totals and the Order insert
Checkout_begin(p, r) ==
    /\ pc[p] = "idle"
    /\ UNCHANGED <<variants, cartVars>>
    /\ IF ~CheckoutValid(r)
       THEN /\ response' = [op |-> "checkout", code |-> 400, error |-> "validation"]
            /\ UNCHANGED <<orderVars, products, workerVars>>
       ELSE /\ pc' = [pc EXCEPT ![p] = "read"]
            /\ req' = [req EXCEPT ![p] = r]
            /\ cur' = [cur EXCEPT ![p] = [i |-> 1, order |-> NewOrder(r).id, quantity |-> 0]]
            /\ snap' = [snap EXCEPT ![p] = Committed]
            /\ Stmt(p, [EmptyTx EXCEPT !.orders = {NewOrder(r)}])
            /\ UNCHANGED response

ReadBlockedForUpdate(p, pid) ==
    \E w \in Procs \ {p} :
        \/ pid \in DOMAIN tx[w].stock
        \/ pc[w] = "write" /\ req[w].items[cur[w].i].product_id = pid

\* Product.objects.get(id=...) is a plain SELECT: it waits for no other transaction
ReadBlocked(p, pid) ==
    FALSE

VisibleQuantityCommitted(p, pid) ==
    products[pid].quantity

\* the quantity of the Product row as the request sees it: its own write, else the committed one
VisibleQuantity(p, pid) ==
    IF pid \in DOMAIN tx[p].stock THEN tx[p].stock[pid] ELSE products[pid].quantity

\* the create loop, first half: product = Product.objects.get(id=item_data['product_id'])
Checkout_read(p) ==
    /\ pc[p] = "read"
    /\ ~ReadBlocked(p, req[p].items[cur[p].i].product_id)
    /\ cur' = [cur EXCEPT ![p].quantity = VisibleQuantity(p, req[p].items[cur[p].i].product_id)]
    /\ pc' = [pc EXCEPT ![p] = "write"]
    /\ UNCHANGED <<catalogVars, cartVars, orderVars, req, tx, snap, response>>

\* product.save() is an UPDATE: it waits while another open transaction has written the row
RowLocked(p, pid) ==
    \E w \in Procs \ {p} : pid \in DOMAIN tx[w].stock

item_total_price_of_one(unit_price, quantity) ==
    unit_price

\* OrderItem.save(): self.total_price = self.unit_price * self.quantity
item_total_price(unit_price, quantity) ==
    unit_price * quantity

\* the create loop, second half: OrderItem.objects.create(...), then
\* product.quantity -= quantity; product.save().  Product.quantity is a
\* PositiveIntegerField: the database refuses a negative value (IntegrityError).
Checkout_write(p) ==
    LET l == req[p].items[cur[p].i]
        pid == l.product_id
        item == [id |-> NextId(AllOrderItems), order |-> cur[p].order, product |-> pid,
                 variant |-> l.variant_id, quantity |-> l.quantity,
                 product_name |-> products[pid].name,
                 product_sku |-> IF l.variant_id # None THEN variants[l.variant_id].sku
                                 ELSE products[pid].sku,
                 unit_price |-> UnitPrice(l),
                 total_price |-> item_total_price(UnitPrice(l), l.quantity)]
        d1 == [tx[p] EXCEPT !.items = @ \cup {item}]
        newq == cur[p].quantity - l.quantity
        d2 == [d1 EXCEPT !.stock = (pid :> newq) @@ @]
        last == cur[p].i = Len(req[p].items)
    IN
    /\ pc[p] = "write"
    /\ track_quantity(pid) => ~RowLocked(p, pid)
    /\ UNCHANGED <<variants, cartVars>>
    /\ IF track_quantity(pid) /\ newq < 0
       THEN /\ Abort(p, d1)
            /\ Reset(p)
            /\ response' = [op |-> "checkout", code |-> 400, error |-> "integrity"]
       ELSE /\ Stmt(p, IF track_quantity(pid) THEN d2 ELSE d1)
            /\ pc' = [pc EXCEPT ![p] = IF last THEN "finish" ELSE "read"]
            /\ cur' = [cur EXCEPT ![p].i = IF last THEN @ ELSE @ + 1]
            /\ UNCHANGED <<req, snap, response>>

\* the insert that raises, if any: the payment Transaction; the serializer's status-history
\* row or delivery event, raising an error its `except Exception: pass` absorbs
\* ("history", "event") or a database error under PostgreSQL, which leaves the open
\* transaction aborted ("history_db", "event_db"); a delivery event of the view
Faults ==
    {"none", "transaction", "history", "event", "history_db", "event_db", "view_event"}

\* OrderCreateView._create_initial_delivery_events
InitialDeliveryEvents(o) ==
    <<[order |-> o.id, event_type |-> "picked_up"]>> \o
    (IF o.shipping_method \in {"express", "overnight"}
     THEN <<[order |-> o.id, event_type |-> "in_transit"]>> ELSE <<>>)

PaymentTransactionOfSubtotal(o, id) ==
    [id |-> id, order |-> o.id, transaction_type |-> "payment",
     amount |-> o.subtotal, status |-> "completed"]

\* Transaction.objects.create(order=order, transaction_type='payment',
\* amount=order.total_amount, status='completed', ...): the mock gateway always succeeds
PaymentTransaction(o, id) ==
    [id |-> id, order |-> o.id, transaction_type |-> "payment",
     amount |-> o.total_amount, status |-> "completed"]

\* the rest of OrderCreateSerializer.create and of OrderCreateView.create: the payment
\* Transaction, the status-history row, the two initial delivery events, the commit.
\* fault names the insert that raises, if any.  The serializer swallows the exception of
\* its two side records; after a database error under PostgreSQL every later statement
\* of the transaction fails too, the release of the serializer's savepoint included, and
\* the request ends like any other failure of the block.  The view turns a failure of
\* its own delivery events into an exception inside the atomic block.
Checkout_finish(p, fault) ==
    LET o == CHOOSE x \in orders \cup tx[p].orders : x.id = cur[p].order
        txn == PaymentTransaction(o, NextId(AllTransactions))
        d1 == IF req[p].payment
              THEN [tx[p] EXCEPT !.txns = @ \cup {txn}, !.paid = @ \cup {o.id}]
              ELSE tx[p]
        d2 == IF fault = "history" THEN d1
              ELSE [d1 EXCEPT !.hist = Append(@, [order |-> o.id, status |-> "pending"])]
        d3 == IF fault = "event" THEN d2
              ELSE [d2 EXCEPT !.events = Append(@, [order |-> o.id, event_type |-> "picked_up"])]
        d4 == [d3 EXCEPT !.events = @ \o InitialDeliveryEvents(o)]
    IN
    /\ pc[p] = "finish"
    /\ UNCHANGED <<variants, cartVars>>
    /\ Reset(p)
    /\ IF req[p].payment /\ fault = "transaction"
       THEN /\ Abort(p, tx[p])
            /\ response' = [op |-> "checkout", code |-> 400, error |-> "transaction"]
       ELSE IF fault \in {"history_db", "event_db"}
       THEN /\ Abort(p, d1)
            /\ response' = [op |-> "checkout", code |-> 400, error |-> "database"]
       ELSE IF fault = "view_event"
       THEN /\ Abort(p, d3)
            /\ response' = [op |-> "checkout", code |-> 400, error |-> "delivery_events"]
       ELSE /\ Commit(p, d4)
            /\ response' = [op |-> "checkout", code |-> 201, error |-> ""]

(***************************************************************************)
(* Order lifecycle: admin update, customer cancel, admin refund.  None of  *)
(* them opens a transaction: every statement is committed as it runs.      *)
(***************************************************************************)
OrderExists(oid) ==
    \E o \in orders : o.id = oid

OrderById(oid) ==
    CHOOSE o \in orders : o.id = oid

HasTransactionNever(oid) ==
    FALSE

\* hasattr(order, 'transaction'): the row the OneToOneField lets an order have
HasTransaction(oid) ==
    \E t \in transactions : t.order = oid

status_given(st, old_status) ==
    st # "absent"

\* if 'status' in validated_data and validated_data['status'] != old_status
status_changed(st, old_status) ==
    st # "absent" /\ st # old_status

\* PUT/PATCH orders/update/<order_id>/ : OrderUpdateView.update, OrderUpdateSerializer.update
AdminUpdateOrder(oid, st, ev) ==
    /\ UNCHANGED <<catalogVars, cartVars, orderItems, transactions, workerVars>>
    /\ IF ~OrderExists(oid)
       THEN /\ response' = [op |-> "update", code |-> 404, error |-> "not_found"]
            /\ UNCHANGED <<orders, statusHistory, deliveryEvents>>
       ELSE LET o == OrderById(oid) IN
            /\ orders' = IF st = "absent" THEN orders
                         ELSE (orders \ {o}) \cup {[o EXCEPT !.status = st]}
            /\ statusHistory' = IF status_changed(st, o.status)
                                THEN Append(statusHistory, [order |-> oid, status |-> st])
                                ELSE statusHistory
            /\ deliveryEvents' = IF ev # "absent"
                                 THEN Append(deliveryEvents, [order |-> oid, event_type |-> ev])
                                 ELSE deliveryEvents
            /\ response' = [op |-> "update", code |-> 200, error |-> ""]

can_cancel_also_processing(st) ==
    st \in {"pending", "confirmed", "processing"}

\* OrderCancelView.update: if instance.status not in ['pending', 'confirmed']
can_cancel(st) ==
    st \in {"pending", "confirmed"}

cancelled_and_payment_refunded(o) ==
    [o EXCEPT !.status = "cancelled", !.payment_status = "refunded"]

\* instance.status = 'cancelled'; instance.save()
cancelled(o) ==
    [o EXCEPT !.status = "cancelled"]

\* PUT/PATCH orders/cancel/<order_id>/ : OrderCancelView.update, the order looked up among the caller's own
OrderCancel(u, oid) ==
    /\ UNCHANGED <<catalogVars, cartVars, orderItems, transactions, workerVars>>
    /\ IF ~(OrderExists(oid) /\ OrderById(oid).user = u)
       THEN /\ response' = [op |-> "cancel", code |-> 404, error |-> "not_found"]
            /\ UNCHANGED <<orders, statusHistory, deliveryEvents>>
       ELSE LET o == OrderById(oid) IN
            IF ~can_cancel(o.status)
            THEN /\ response' = [op |-> "cancel", code |-> 400, error |-> "status"]
                 /\ UNCHANGED <<orders, statusHistory, deliveryEvents>>
            ELSE /\ orders' = (orders \ {o}) \cup {cancelled(o)}
                 /\ statusHistory' = Append(statusHistory, [order |-> oid, status |-> "cancelled"])
                 /\ deliveryEvents' = Append(deliveryEvents, [order |-> oid, event_type |-> "returned"])
                 /\ response' = [op |-> "cancel", code |-> 200, error |-> ""]

can_refund_also_processing(st) ==
    st \in {"delivered", "shipped", "processing"}

\* refund_order: if order.status not in ['delivered', 'shipped']
can_refund(st) ==
    st \in {"delivered", "shipped"}

\* POST orders/refund/<order_id>/ : amount is <<>> when the request gives none.
\* get_object_or_404 raises Http404 for an unknown order; Http404 is not
\* Order.DoesNotExist, so `except Exception` answers it with a 500.
\* Transaction.order is a OneToOneField: the insert of a second Transaction for the
\* order raises IntegrityError, which the handler turns into a 500.  The handler opens
\* no transaction: the Transaction insert, order.save() and the history insert are
\* committed one by one, and fault names the one that raises, if any.
refund_order(oid, amount, fault) ==
    /\ UNCHANGED <<catalogVars, cartVars, orderItems, deliveryEvents, workerVars>>
    /\ IF ~OrderExists(oid)
       THEN /\ response' = [op |-> "refund", code |-> 500, error |-> "not_found"]
            /\ UNCHANGED <<orders, transactions, statusHistory>>
       ELSE LET o == OrderById(oid)
                refund_amount == IF amount # <<>> THEN amount[1] ELSE o.total_amount
                txn == [id |-> NextId(transactions), order |-> oid,
                        transaction_type |-> "refund", amount |-> refund_amount,
                        status |-> "completed"]
            IN
            IF ~can_refund(o.status)
            THEN /\ response' = [op |-> "refund", code |-> 400, error |-> "status"]
                 /\ UNCHANGED <<orders, transactions, statusHistory>>
            ELSE IF HasTransaction(oid)
            THEN /\ response' = [op |-> "refund", code |-> 500, error |-> "integrity"]
                 /\ UNCHANGED <<orders, transactions, statusHistory>>
            ELSE IF fault = "transaction"
            THEN /\ response' = [op |-> "refund", code |-> 500, error |-> "transaction"]
                 /\ UNCHANGED <<orders, transactions, statusHistory>>
            ELSE IF fault = "save"
            THEN /\ transactions' = transactions \cup {txn}
                 /\ response' = [op |-> "refund", code |-> 500, error |-> "save"]
                 /\ UNCHANGED <<orders, statusHistory>>
            ELSE /\ transactions' = transactions \cup {txn}
                 /\ orders' = (orders \ {o}) \cup
                        {[o EXCEPT !.status = "refunded", !.payment_status = "refunded"]}
                 /\ IF fault = "history"
                    THEN /\ response' = [op |-> "refund", code |-> 500, error |-> "history"]
                         /\ UNCHANGED statusHistory
                    ELSE /\ statusHistory' =
                               Append(statusHistory, [order |-> oid, status |-> "refunded"])
                         /\ response' = [op |-> "refund", code |-> 200, error |-> ""]

(***************************************************************************)
(* Add-to-cart, statement by statement, for requests that run at the same  *)
(* time.  AddToCartView.create and quick_add_to_cart read the CartItem     *)
(* with a plain get() inside atomic (no select_for_update) and write back  *)
(* quantity + n with save(); under READ COMMITTED the read of one request  *)
(* may come before the write of the other is committed.                    *)
(***************************************************************************)
CartRequest(u, pid, vid, q) ==
    [user |-> u, product_id |-> pid, variant_id |-> vid, quantity |-> q]

\* is_valid(), get_or_create of the cart, CartItem.objects.get(cart, product, variant)
CartAdd_begin(p, u, pid, vid, q) ==
    /\ pc[p] = "idle"
    /\ UNCHANGED <<catalogVars, cartItems, expectedQty, orderVars, tx, snap>>
    /\ IF ~AddToCartValid(pid, vid, q)
       THEN /\ response' = [op |-> "add", code |-> 400, error |-> "invalid"]
            /\ UNCHANGED <<carts, pc, req, cur>>
       ELSE /\ carts' = carts \cup {u}
            /\ pc' = [pc EXCEPT ![p] = "cart_write"]
            /\ req' = [req EXCEPT ![p] = CartRequest(u, pid, vid, q)]
            /\ cur' = [cur EXCEPT ![p] = [existing |-> ItemsOf(u, pid, vid)]]
            /\ UNCHANGED response

\* quick_add_to_cart up to its get(): one unit of the product without a variant
QuickAdd_begin(p, u, pid) ==
    /\ pc[p] = "idle"
    /\ UNCHANGED <<catalogVars, cartItems, expectedQty, orderVars, tx, snap>>
    /\ IF ~(pid \in ProductIds /\ products[pid].is_active)
       THEN /\ response' = [op |-> "quick_add", code |-> 500, error |-> "not_found"]
            /\ UNCHANGED <<carts, pc, req, cur>>
       ELSE IF products[pid].track_quantity /\ products[pid].quantity <= 0
       THEN /\ response' = [op |-> "quick_add", code |-> 400, error |-> "stock"]
            /\ UNCHANGED <<carts, pc, req, cur>>
       ELSE /\ carts' = carts \cup {u}
            /\ pc' = [pc EXCEPT ![p] = "cart_write"]
            /\ req' = [req EXCEPT ![p] = CartRequest(u, pid, None, 1)]
            /\ cur' = [cur EXCEPT ![p] = [existing |-> ItemsOf(u, pid, None)]]
            /\ UNCHANGED response

\* unique_together = ['cart', 'product', 'variant']: the row an INSERT collides with.
\* A NULL variant is distinct from every other NULL, so rows without a variant never collide.
UniqueConflict(u, pid, vid) ==
    vid # None /\ ItemsOf(u, pid, vid) # {}

\* the rest of the handler and the commit: the stock check against the quantity read,
\* then save() of the row read (an UPDATE by primary key) or create()
CartAdd_write(p) ==
    LET r == req[p]
        existing == cur[p].existing
    IN
    /\ pc[p] = "cart_write"
    /\ UNCHANGED <<catalogVars, carts, orderVars, tx>>
    /\ Reset(p)
    /\ IF Cardinality(existing) > 1
       THEN /\ response' = [op |-> "add", code |-> 500, error |-> "multiple"]
            /\ UNCHANGED <<cartItems, expectedQty>>
       ELSE IF existing # {}
       THEN LET it == CHOOSE x \in existing : TRUE
                nq == new_quantity(it.quantity, r.quantity)
            IN
            IF products[r.product_id].track_quantity
               /\ nq > available_stock(r.product_id, r.variant_id)
            THEN /\ response' = [op |-> "add", code |-> 400, error |-> "stock"]
                 /\ UNCHANGED <<cartItems, expectedQty>>
            ELSE /\ cartItems' = {x \in cartItems : x.id # it.id} \cup
                        {[it EXCEPT !.quantity = nq,
                                    !.price_when_added =
                                        SavedPrice(@, r.product_id, r.variant_id)]}
                 /\ expectedQty' = [expectedQty EXCEPT
                        ![<<r.user, r.product_id, r.variant_id>>] = @ + r.quantity]
                 /\ response' = [op |-> "add", code |-> 201, error |-> ""]
       ELSE IF UniqueConflict(r.user, r.product_id, r.variant_id)
       THEN /\ response' = [op |-> "add", code |-> 500, error |-> "integrity"]
            /\ UNCHANGED <<cartItems, expectedQty>>
       ELSE /\ cartItems' = cartItems \cup
                    {[id |-> NextId(cartItems), user |-> r.user, product |-> r.product_id,
                      variant |-> r.variant_id, quantity |-> r.quantity,
                      price_when_added |-> SavedPrice(0, r.product_id, r.variant_id)]}
            /\ expectedQty' = [expectedQty EXCEPT
                   ![<<r.user, r.product_id, r.variant_id>>] = @ + r.quantity]
            /\ response' = [op |-> "add", code |-> 201, error |-> ""]

InitCatalog ==
    \E s \in StockChoices :
        /\ products = Catalog(s[1], s[2]).products
        /\ variants = Catalog(s[1], s[2]).variants

InitCart ==
    /\ carts = {}
    /\ cartItems = {}
    /\ expectedQty = [k \in Users \X ProductIds \X (VariantIds \cup {None}) |-> 0]

InitOrders ==
    /\ orders = {}
    /\ orderItems = {}
    /\ transactions = {}
    /\ statusHistory = <<>>
    /\ deliveryEvents = <<>>
    /\ pc = [p \in Procs |-> "idle"]
    /\ req = [p \in Procs |-> NoReq]
    /\ tx = [p \in Procs |-> EmptyTx]
    /\ cur = [p \in Procs |-> NoCur]
    /\ snap = [p \in Procs |-> <<>>]
    /\ response = [op |-> "none", code |-> 0, error |-> ""]

Init ==
    /\ InitCatalog
    /\ InitCart
    /\ InitOrders

AddInputs ==
    {<<1, None>>, <<1, 1>>, <<2, None>>, <<2, 1>>, <<3, None>>,
     <<MissingProductId, None>>, <<1, MissingVariantId>>}

QtyInputs ==
    {0, 1, 2, MAX_QUANTITY, MAX_QUANTITY + 1}

ItemIdInputs ==
    1..3

\* one customer adding to the cart, call after call
NextCartAdd ==
    \/ \E in \in AddInputs, q \in QtyInputs : AddToCart(1, in[1], in[2], q)
    \/ \E pid \in {1, 2, 3, MissingProductId} : quick_add_to_cart(1, pid)

SpecCartAdd == Init /\ [][NextCartAdd]_vars

\* one customer using every cart call
NextCart ==
    \/ \E in \in AddInputs, q \in QtyInputs : AddToCart(1, in[1], in[2], q)
    \/ \E pid \in {1, 2, 3, MissingProductId} : quick_add_to_cart(1, pid)
    \/ \E id \in ItemIdInputs, q \in QtyInputs : UpdateCartItem(1, id, q)
    \/ \E id \in ItemIdInputs : RemoveCartItem(1, id)
    \/ ClearCart(1)

SpecCart == Init /\ [][NextCart]_vars

StockAddInputs ==
    {<<1, None>>, <<1, 1>>, <<2, None>>}

\* below, at and above every stock level of the catalog
StockQtyInputs ==
    {1, 2, MaxStock, MaxStock + 1}

\* one customer adding and updating items of the tracked product 1, of its variant and
\* of the untracked product 2, up to a little above the largest stock
NextCartStock ==
    \/ \E in \in StockAddInputs, q \in StockQtyInputs :
          /\ QtyOf(1, in[1], in[2]) + q <= MaxStock + 2
          /\ AddToCart(1, in[1], in[2], q)
    \/ \E id \in ItemIdInputs, q \in StockQtyInputs : UpdateCartItem(1, id, q)
    \/ \E id \in ItemIdInputs : RemoveCartItem(1, id)

SpecCartStock == Init /\ [][NextCartStock]_vars

\* one customer, two requests at a time: adds and quick-adds of the tracked product 1,
\* with and without its variant
NextCartConc ==
    \/ \E p \in Procs, vid \in {None, 1}, q \in {1, 2} : CartAdd_begin(p, 1, 1, vid, q)
    \/ \E p \in Procs : QuickAdd_begin(p, 1, 1)
    \/ \E p \in Procs : CartAdd_write(p)

SpecCartConc == Init /\ [][NextCartConc]_vars

\* a free product, its first price and a raised one
PriceInputs ==
    {0, 1999, 2499}

\* one customer filling a cart with product 1 and its variant while the admin edits prices
NextCartPrice ==
    \/ \E pv \in {<<1, None>>, <<1, 1>>}, q \in {1, 2} : AddToCart(1, pv[1], pv[2], q)
    \/ quick_add_to_cart(1, 1)
    \/ \E id \in ItemIdInputs, q \in {1, 2} : UpdateCartItem(1, id, q)
    \/ \E id \in ItemIdInputs : RemoveCartItem(1, id)
    \/ \E price \in PriceInputs : SetProductPrice(1, price)
    \/ \E price \in {None, 1500} : SetVariantPrice(1, price)

SpecCartPrice == Init /\ [][NextCartPrice]_vars

(***************************************************************************)
(* Checkout requests.                                                      *)
(***************************************************************************)
Line(pid, vid, q) ==
    [product_id |-> pid, variant_id |-> vid, quantity |-> q, unit_price |-> 0]

Request(u, items, payment) ==
    [user |-> u, items |-> items, payment |-> payment, method |-> "standard",
     subtotal |-> <<>>, shipping_cost |-> <<>>, tax_amount |-> <<>>, total_amount |-> <<>>]

\* lines a checkout accepts on some catalog, then lines it must refuse: more than any
\* stock, an inactive product, a product or a variant that does not exist, quantity 0
LineInputs ==
    {Line(1, None, 1), Line(1, 1, 2), Line(2, None, 2),
     Line(1, None, MaxStock + 1), Line(3, None, 1), Line(MissingProductId, None, 1),
     Line(1, MissingVariantId, 1), Line(1, None, 0)}

ItemLists ==
    UNION {[1..n -> LineInputs] : n \in 1..MaxLines}

CheckoutRequests ==
    {Request(1, items, pay) : items \in ItemLists, pay \in BOOLEAN}

Idle ==
    \A p \in Procs : pc[p] = "idle"

\* one customer checking out, request after request until an order is placed, any
\* insert of the last step failing
NextCheckout ==
    \/ \E r \in CheckoutRequests : orders = {} /\ Checkout_begin(1, r)
    \/ Checkout_read(1)
    \/ Checkout_write(1)
    \/ \E f \in Faults : Checkout_finish(1, f)

SpecCheckout == Init /\ [][NextCheckout]_vars

OrderIdInputs ==
    1..MaxOrders

LifecycleRequests ==
    {Request(1, <<Line(2, None, 1)>>, pay) : pay \in BOOLEAN}

\* the refund amounts tried on an order: none given, one cent, one cent above the total
RefundAmounts(oid) ==
    {<<>>, <<1>>} \cup
    (IF OrderExists(oid) THEN {<<OrderById(oid).total_amount + 1>>} ELSE {})

\* the admin's update bodies: a status, nothing, or a delivery event with or without one
AdminUpdates ==
    {<<st, "absent">> : st \in Statuses \cup {"absent"}} \cup
    {<<"shipped", "out_for_delivery">>, <<"absent", "out_for_delivery">>}

RefundFaults ==
    {"none", "transaction", "save", "history"}

LogsBounded ==
    /\ Len(statusHistory') <= MaxHist
    /\ Len(deliveryEvents') <= MaxEvents

\* orders placed one at a time, then moved by the admin, the customers and refunds,
\* one request after the other; the orders buy the untracked product 2, so one
\* stock level of product 1 is enough
NextOrder ==
    \/ \E r \in LifecycleRequests :
          /\ Cardinality(orders) < MaxOrders
          /\ products[1].quantity = MaxStock /\ variants[1].quantity = MaxStock
          /\ Len(statusHistory) < MaxHist /\ Len(deliveryEvents) + 2 <= MaxEvents
          /\ Checkout_begin(1, r)
    \/ Checkout_read(1)
    \/ Checkout_write(1)
    \/ Checkout_finish(1, "none")
    \/ \E oid \in OrderIdInputs, u \in AdminUpdates :
          Idle /\ AdminUpdateOrder(oid, u[1], u[2]) /\ LogsBounded
    \/ \E u \in Users, oid \in OrderIdInputs :
          Idle /\ OrderCancel(u, oid) /\ LogsBounded
    \/ \E oid \in OrderIdInputs : \E a \in RefundAmounts(oid) :
          Idle /\ refund_order(oid, a, "none") /\ LogsBounded

SpecOrder == Init /\ [][NextOrder]_vars

\* the one order of the specification below, and an id no order has
CancelIdInputs ==
    {1, 2}

\* two customers, each with a cart, and one order of customer 1: every customer
\* updates and removes items and cancels orders by any id, own, foreign or unknown.
\* Ownership does not depend on the stock: the full catalog is enough.
NextOwn ==
    \/ \E u \in Users : \E vid \in (IF u = 1 THEN {None, 1} ELSE {None}) :
          /\ Idle /\ QtyOf(u, 1, vid) = 0
          /\ products[1].quantity = MaxStock /\ variants[1].quantity = MaxStock
          /\ AddToCart(u, 1, vid, 1)
    \/ \E u \in Users, id \in ItemIdInputs : Idle /\ UpdateCartItem(u, id, 2)
    \/ \E u \in Users, id \in ItemIdInputs : Idle /\ RemoveCartItem(u, id)
    \/ \E r \in LifecycleRequests :
          /\ orders = {} /\ products[1].quantity = MaxStock /\ variants[1].quantity = MaxStock
          /\ Checkout_begin(1, r)
    \/ Checkout_read(1)
    \/ Checkout_write(1)
    \/ Checkout_finish(1, "none")
    \/ \E u \in Users, oid \in CancelIdInputs : Idle /\ OrderCancel(u, oid)

SpecOwn == Init /\ [][NextOwn]_vars

\* one order, moved by the admin and refunded, any statement of the refund failing
NextRefund ==
    \/ \E r \in LifecycleRequests : orders = {} /\ Checkout_begin(1, r)
    \/ Checkout_read(1)
    \/ Checkout_write(1)
    \/ Checkout_finish(1, "none")
    \/ \E oid \in OrderIdInputs, st \in {"processing", "shipped", "delivered"} :
          Idle /\ AdminUpdateOrder(oid, st, "absent") /\ LogsBounded
    \/ \E oid \in OrderIdInputs, f \in RefundFaults : \E a \in RefundAmounts(oid) :
          Idle /\ refund_order(oid, a, f) /\ LogsBounded

SpecRefund == Init /\ [][NextRefund]_vars

ConcRequests(p) ==
    {Request(p, <<Line(1, None, q)>>, FALSE) : q \in 1..MaxStock} \cup
    {Request(p, <<Line(1, None, 1), Line(1, None, 1)>>, FALSE)}

\* two customers checking out at the same time, one request each
NextConc ==
    \E p \in Procs :
        \/ \E r \in ConcRequests(p) :
              /\ \A o \in orders : o.user # p
              /\ Checkout_begin(p, r)
        \/ Checkout_read(p)
        \/ Checkout_write(p)
        \/ Checkout_finish(p, "none")

SpecConc == Init /\ [][NextConc]_vars

Tracked(l) ==
    /\ l.product_id \in ProductIds
    /\ products[l.product_id].track_quantity

\* checkouts of the untracked product 2 for more than its stored quantity, alone, with
\* its variant and next to the tracked product 1; checkouts naming the tracked
\* product 1 on two lines, within its stock together and only line by line
RepeatRequests ==
    {Request(1, <<l>>, FALSE) :
        l \in {Line(2, None, 1), Line(2, None, MaxStock + 1), Line(2, 2, 2), Line(1, None, 2)}} \cup
    {Request(1, <<Line(2, None, 2), Line(1, None, 2)>>, FALSE),
     Request(1, <<Line(1, None, 1), Line(1, 1, 1)>>, FALSE),
     Request(1, <<Line(1, None, 2), Line(1, None, 2)>>, FALSE)}

\* one customer placing order after order
NextRepeat ==
    \/ \E r \in RepeatRequests : Cardinality(orders) < MaxCheckouts /\ Checkout_begin(1, r)
    \/ Checkout_read(1)
    \/ Checkout_write(1)
    \/ Checkout_finish(1, "none")

SpecRepeat == Init /\ [][NextRepeat]_vars

PricedLine(pid, vid, q, price) ==
    [Line(pid, vid, q) EXCEPT !.unit_price = price]

PricedRequest(items, method, sub, ship, tax, total) ==
    [Request(1, items, FALSE) EXCEPT !.method = method, !.subtotal = sub,
        !.shipping_cost = ship, !.tax_amount = tax, !.total_amount = total]

\* item lists priced by the product, by a variant without and with a price of its own,
\* and by the caller; the last two have a subtotal of 100.00 and more
PricedItemLists ==
    {<<Line(1, None, 1)>>, <<Line(1, 1, 2)>>, <<Line(2, 2, 1)>>,
     <<PricedLine(2, None, 3, 1234)>>, <<PricedLine(2, None, 1, 10000)>>,
     <<Line(1, None, 2), Line(2, None, 1), PricedLine(2, 2, 1, 10000)>>}

\* no method, the three codes' spellings, an unknown method
MethodInputs ==
    {"", "standard", "express", "Overnight Shipping", "pigeon"}

\* checkouts with and without the caller's own subtotal, shipping cost, tax and total
PricedRequests ==
    {PricedRequest(items, m, sub, ship, tax, total) :
        items \in PricedItemLists, m \in MethodInputs,
        sub \in {<<>>, <<0>>, <<2500>>}, ship \in {<<>>, <<0>>, <<500>>},
        tax \in {<<>>, <<0>>, <<77>>}, total \in {<<>>, <<1>>}}

\* one customer checking out, request after request until an order is placed
NextTotals ==
    \/ \E r \in PricedRequests : orders = {} /\ Checkout_begin(1, r)
    \/ Checkout_read(1)
    \/ Checkout_write(1)
    \/ Checkout_finish(1, "none")

SpecTotals == Init /\ [][NextTotals]_vars

\* an order of the variant of product 1 and of product 2 at the caller's price
FrozenRequests ==
    {Request(1, <<Line(1, 1, 1), PricedLine(2, None, 3, 1234)>>, pay) : pay \in BOOLEAN}

\* one order, then everything that follows an order: the admin's update, cancel, refund,
\* the customer's cart, and the admin editing the catalog at any moment.  Nothing here
\* depends on the stock: the full catalog is enough.
NextFrozen ==
    \/ \E r \in FrozenRequests :
          /\ orders = {} /\ products[1].quantity = MaxStock /\ variants[1].quantity = MaxStock
          /\ Checkout_begin(1, r)
    \/ Checkout_read(1)
    \/ Checkout_write(1)
    \/ Checkout_finish(1, "none")
    \/ Idle /\ AdminUpdateOrder(1, "shipped", "absent") /\ LogsBounded
    \/ Idle /\ OrderCancel(1, 1) /\ LogsBounded
    \/ Idle /\ refund_order(1, <<>>, "none") /\ LogsBounded
    \/ Idle /\ orders # {} /\ AddToCart(1, 1, 1, 1)
    \/ Idle /\ ClearCart(1)
    \/ SetProductPrice(1, 2499)
    \/ SetVariantPrice(1, 1500)
    \/ SetProductName(1, "cup")
    \/ SetVariantSku(1, "PRD-1-B")

SpecFrozen == Init /\ [][NextFrozen]_vars

\* the serializer's subtotal, shipping_cost, tax_amount and total_amount are plain
\* DecimalFields without min_value: checkouts giving each of them below zero, or not
SignedRequests ==
    {PricedRequest(<<Line(1, None, 1)>>, "standard", sub, ship, tax, total) :
        sub \in {<<>>, <<-500>>}, ship \in {<<>>, <<-100>>},
        tax \in {<<>>, <<-1>>}, total \in {<<>>, <<-1>>}}

\* one customer checking out, request after request until an order is placed
NextSigned ==
    \/ \E r \in SignedRequests : orders = {} /\ Checkout_begin(1, r)
    \/ Checkout_read(1)
    \/ Checkout_write(1)
    \/ Checkout_finish(1, "none")

SpecSigned == Init /\ [][NextSigned]_vars

(***************************************************************************)
(* C1: checkout is all-or-nothing.  When a checkout request ends in an     *)
(* error, at validation, at the stock write of any line or at a later      *)
(* insert, the committed orders, order items, transactions, history rows,  *)
(* delivery events and product stock are what they were when the request   *)
(* arrived.                                                                *)
(***************************************************************************)
C1_CheckoutAllOrNothing ==
    [][(pc'[1] = "idle" /\ response'.op = "checkout" /\ response'.code = 400)
          => Committed' = (IF pc[1] = "idle" THEN Committed ELSE snap[1])]_vars

\* the second of two lines for the same product fails at its stock write, after the
\* Order, the first OrderItem and the first decrement were written: nothing is left
C1_Witness ==
    /\ response = [op |-> "checkout", code |-> 400, error |-> "integrity"]
    /\ orders = {} /\ orderItems = {} /\ transactions = {}
    /\ products[1].quantity = 1

(***************************************************************************)
(* C2: Order.status moves only along pending -> confirmed -> processing    *)
(* -> shipped -> delivered, {pending, confirmed} -> cancelled and          *)
(* {shipped, delivered} -> refunded, the last through the refund           *)
(* operation only.                                                         *)
(***************************************************************************)
AllowedEdges ==
    {<<"pending", "confirmed">>, <<"confirmed", "processing">>, <<"processing", "shipped">>,
     <<"shipped", "delivered">>, <<"pending", "cancelled">>, <<"confirmed", "cancelled">>,
     <<"shipped", "refunded">>, <<"delivered", "refunded">>}

C2_StatusStateMachine ==
    [][\A o \in orders : \A n \in orders' :
          (o.id = n.id /\ o.status # n.status)
             => /\ <<o.status, n.status>> \in AllowedEdges
                /\ n.status = "refunded" => response'.op = "refund"]_vars

(***************************************************************************)
(* C3: a cancel request of the order's owner succeeds exactly when the     *)
(* order is pending or confirmed; in any other status it is answered with  *)
(* an error and changes no order, appends no status-history row and no     *)
(* delivery event.                                                         *)
(***************************************************************************)
C3_CancelOnlyFromPendingOrConfirmed ==
    [][\A u \in Users, oid \in OrderIdInputs :
          (Idle /\ OrderExists(oid) /\ OrderById(oid).user = u /\ OrderCancel(u, oid))
             => IF OrderById(oid).status \in {"pending", "confirmed"}
                THEN /\ response'.code = 200
                     /\ \E n \in orders' : n.id = oid /\ n.status = "cancelled"
                ELSE /\ response'.code = 400
                     /\ UNCHANGED <<orders, statusHistory, deliveryEvents>>]_vars

C3_Witness ==
    /\ response = [op |-> "cancel", code |-> 400, error |-> "status"]
    /\ \E o \in orders : o.status = "processing"
    /\ \A i \in 1..Len(statusHistory) : statusHistory[i].status # "cancelled"

(***************************************************************************)
(* C4: a refund request succeeds only for an order that is delivered or    *)
(* shipped; in any other status it is answered with an error and leaves    *)
(* the orders (status, payment_status), the transactions and the status    *)
(* history unchanged.                                                      *)
(***************************************************************************)
C4_RefundOnlyFromDeliveredOrShipped ==
    [][\A oid \in OrderIdInputs : \A a \in RefundAmounts(oid) :
          (Idle /\ OrderExists(oid) /\ refund_order(oid, a, "none")
                /\ OrderById(oid).status \notin {"delivered", "shipped"})
             => /\ response'.code = 400
                /\ UNCHANGED <<orders, transactions, statusHistory>>]_vars

C4_Witness ==
    /\ response = [op |-> "refund", code |-> 400, error |-> "status"]
    /\ \E o \in orders : o.status = "processing" /\ o.payment_status = "completed"
    /\ \A t \in transactions : t.transaction_type = "payment"

(***************************************************************************)
(* C5: a refund whose amount is greater than the order's total is          *)
(* rejected, so no refund Transaction ever exceeds the total of its order. *)
(***************************************************************************)
C5_RefundWithinTotal ==
    \A t \in transactions :
        t.transaction_type = "refund" => t.amount <= OrderById(t.order).total_amount

(***************************************************************************)
(* C6: a refund of any shipped or delivered order succeeds, whether or not *)
(* a payment Transaction was recorded at checkout: it creates a completed  *)
(* refund Transaction, sets status and payment_status to refunded and      *)
(* appends one status-history row.                                         *)
(***************************************************************************)
C6_RefundSucceeds ==
    [][\A oid \in OrderIdInputs : \A a \in RefundAmounts(oid) :
          (Idle /\ OrderExists(oid) /\ refund_order(oid, a, "none")
                /\ OrderById(oid).status \in {"delivered", "shipped"})
             => /\ response'.code = 200
                /\ \E t \in transactions' \ transactions :
                      t.order = oid /\ t.transaction_type = "refund" /\ t.status = "completed"
                /\ \E n \in orders' :
                      n.id = oid /\ n.status = "refunded" /\ n.payment_status = "refunded"
                /\ statusHistory' = Append(statusHistory, [order |-> oid, status |-> "refunded"])]_vars

(***************************************************************************)
(* C7: repeated add-to-cart and quick-add calls for one (product, variant) *)
(* pair, variant none included, keep exactly one CartItem for the pair,    *)
(* its quantity the sum of the quantities added, and never above the       *)
(* tracked stock of the product or variant: the call that would exceed it  *)
(* fails and changes nothing.                                              *)
(***************************************************************************)
C7_AddAccumulates ==
    \A pr \in Pairs :
        /\ Cardinality(ItemsOf(1, pr[1], pr[2])) <= 1
        /\ QtyOf(1, pr[1], pr[2]) = expectedQty[<<1, pr[1], pr[2]>>]
        /\ products[pr[1]].track_quantity =>
              QtyOf(1, pr[1], pr[2]) <= available_stock(pr[1], pr[2])

\* the no-variant item of the tracked product filled up to its stock by several calls
\* (no single call adds MaxStock), and the variant item of the same product beside it
C7_Witness ==
    /\ products[1].quantity = MaxStock
    /\ QtyOf(1, 1, None) = MaxStock
    /\ QtyOf(1, 1, 1) = variants[1].quantity
    /\ Cardinality({it \in cartItems : it.user = 1 /\ it.product = 1}) = 2

(***************************************************************************)
(* C8: every CartItem has 1 <= quantity <= 99 in every reachable state.    *)
(***************************************************************************)
C8_QuantityInRange ==
    \A it \in cartItems : it.quantity >= 1 /\ it.quantity <= MAX_QUANTITY

(***************************************************************************)
(* C9: concurrent checkouts of one tracked product are not serialized.  A  *)
(* checkout never waits to read a Product row, whatever another open       *)
(* checkout has read or written, so both can pass the stock check on the   *)
(* same value and both commit: the quantity ordered exceeds the stock.     *)
(***************************************************************************)
C9_CheckoutsNotSerialized ==
    \A p \in Procs : pc[p] = "read" => ENABLED Checkout_read(p)

RECURSIVE SumQuantity(_)
SumQuantity(items) ==
    IF items = {} THEN 0
    ELSE LET it == CHOOSE x \in items : TRUE
         IN it.quantity + SumQuantity(items \ {it})

\* both orders are committed and together they hold more units of product 1 than
\* the catalog ever had
C9_Witness ==
    /\ Idle
    /\ \A p \in Procs : \E o \in orders : o.user = p
    /\ SumQuantity({it \in orderItems : it.product = 1}) > MaxStock

(***************************************************************************)
(* C10: checkout checks every line of a tracked product against the        *)
(* variant's stock when the line selects a variant and against the         *)
(* product's stock otherwise; a request naming existing products and       *)
(* variants is rejected exactly when some line exceeds that stock or its   *)
(* product is inactive.                                                    *)
(***************************************************************************)
WellFormed(r) ==
    \A i \in 1..Len(r.items) :
        /\ r.items[i].product_id \in ProductIds
        /\ r.items[i].variant_id \in VariantIds \cup {None}
        /\ r.items[i].quantity > 0

ExceedsAvailable(l) ==
    \/ ~products[l.product_id].is_active
    \/ /\ products[l.product_id].track_quantity
       /\ l.quantity > available_stock(l.product_id, l.variant_id)

C10_ValidatesAvailableStock ==
    [][\A r \in CheckoutRequests :
          (WellFormed(r) /\ orders = {} /\ Checkout_begin(1, r))
             => ((pc'[1] = "idle" /\ response'.code = 400)
                   <=> \E i \in 1..Len(r.items) : ExceedsAvailable(r.items[i]))]_vars


(***************************************************************************)
(* C11: after a successful checkout the stock of the variant a line        *)
(* selects, or of the product when the line selects none, is lower by      *)
(* exactly the ordered quantity for every line of a tracked product, and   *)
(* no other product's or variant's stock has changed.                      *)
(***************************************************************************)
\* the units the lines of items take from product pid itself (vid = None) or from
\* its variant vid
RECURSIVE OrderedFrom(_, _, _)
OrderedFrom(items, pid, vid) ==
    IF items = <<>> THEN 0
    ELSE (IF /\ Head(items).product_id = pid
             /\ Head(items).variant_id = vid
             /\ products[pid].track_quantity
          THEN Head(items).quantity ELSE 0) + OrderedFrom(Tail(items), pid, vid)

CheckoutSucceeds ==
    pc[1] = "finish" /\ pc'[1] = "idle" /\ response'.op = "checkout" /\ response'.code = 201

C11_StockDecrement ==
    [][CheckoutSucceeds =>
          /\ \A pid \in ProductIds :
                products'[pid].quantity =
                    snap[1].products[pid].quantity - OrderedFrom(req[1].items, pid, None)
          /\ \A vid \in VariantIds :
                variants'[vid].quantity =
                    variants[vid].quantity - OrderedFrom(req[1].items, variants[vid].product, vid)]_vars


(***************************************************************************)
(* C12: for a product with track_quantity = false no checkout, however     *)
(* many are placed and whatever the quantities, changes the product's      *)
(* stored quantity, and none is rejected for the stock of that product: a  *)
(* request is refused at validation only for a line of a tracked product   *)
(* that exceeds its stock, and the write of a line of an untracked product *)
(* never fails.                                                            *)
(***************************************************************************)
C12_UntrackedStockUntouched ==
    [][/\ \A pid \in ProductIds :
             ~products[pid].track_quantity => products'[pid].quantity = products[pid].quantity
       /\ \A r \in RepeatRequests :
             (Cardinality(orders) < MaxCheckouts /\ Checkout_begin(1, r) /\ pc'[1] = "idle")
                => \E i \in 1..Len(r.items) :
                      Tracked(r.items[i]) /\ r.items[i].quantity > products[r.items[i].product_id].quantity
       /\ (pc[1] = "write" /\ ~Tracked(req[1].items[cur[1].i])) => pc'[1] # "idle"]_vars

\* several orders are placed and together hold more units of product 2 than it stores
C12_Witness ==
    /\ Idle
    /\ Cardinality(orders) = MaxCheckouts
    /\ ~products[2].track_quantity /\ products[2].quantity = 1
    /\ \A o \in orders : \E it \in orderItems :
          it.order = o.id /\ it.product = 2 /\ it.quantity > products[2].quantity


(***************************************************************************)
(* C13: the subtotal of every persisted order is exactly the sum over its  *)
(* OrderItems of unit_price x quantity, in cents.                          *)
(***************************************************************************)
RECURSIVE SumItemPrices(_)
SumItemPrices(items) ==
    IF items = {} THEN 0
    ELSE LET it == CHOOSE x \in items : TRUE
         IN it.unit_price * it.quantity + SumItemPrices(items \ {it})

C13_SubtotalIsSumOfItems ==
    \A o \in orders : o.subtotal = SumItemPrices({it \in orderItems : it.order = o.id})


(***************************************************************************)
(* C14: the shipping cost stored on a new order is determined by the       *)
(* normalized method alone: 0.00 for standard (and for a missing or        *)
(* unrecognized method), 15.99 for express and 29.99 for overnight,        *)
(* whatever the subtotal.                                                  *)
(***************************************************************************)
ShippingTable(m) ==
    CASE m \in {"express", "Express Shipping"} -> 1599
      [] m \in {"overnight", "Overnight Shipping"} -> 2999
      [] OTHER -> 0

C14_ShippingCostByMethod ==
    [][CheckoutSucceeds =>
          \A o \in orders' \ orders : o.shipping_cost = ShippingTable(req[1].method)]_vars


(***************************************************************************)
(* C15: without a tax override the tax_amount of a new order is its        *)
(* subtotal x 0.08 rounded to two places, that is the amount in cents      *)
(* nearest to 8% of the subtotal (100.00 gives 8.00); a tax supplied by    *)
(* the caller, 0 included, is stored unchanged.                            *)
(***************************************************************************)
C15_TaxAmount ==
    [][CheckoutSucceeds =>
          \A o \in orders' \ orders :
             IF req[1].tax_amount = <<>>
             THEN /\ 2 * (o.tax_amount * 100 - o.subtotal * 8) <= 100
                  /\ 2 * (o.subtotal * 8 - o.tax_amount * 100) <= 100
                  /\ o.subtotal = 10000 => o.tax_amount = 800
             ELSE o.tax_amount = req[1].tax_amount[1]]_vars

\* an order is placed whose 8% is not a whole number of cents: 19.99 gives 1.5992,
\* stored as 1.60
C15_Witness ==
    /\ response.code = 201
    /\ \E o \in orders : o.subtotal = 1999 /\ o.tax_amount = 160


(***************************************************************************)
(* C16: without a total override the total_amount of a new order equals    *)
(* its stored subtotal + shipping_cost + tax_amount; only a total supplied *)
(* by the caller, which is stored as given, drops the equality.            *)
(***************************************************************************)
C16_TotalAmount ==
    [][CheckoutSucceeds =>
          \A o \in orders' \ orders :
             IF req[1].total_amount = <<>>
             THEN o.total_amount = o.subtotal + o.shipping_cost + o.tax_amount
             ELSE o.total_amount = req[1].total_amount[1]]_vars

\* an express order is placed whose tax was rounded: 19.99 + 15.99 + 1.60 = 37.58
C16_Witness ==
    /\ response.code = 201
    /\ \E o \in orders :
          /\ o.subtotal = 1999 /\ o.shipping_cost = 1599 /\ o.tax_amount = 160
          /\ o.total_amount = 3758


(***************************************************************************)
(* C17: after a successful checkout with payment information the order has *)
(* exactly one Transaction, of type payment, completed, for the order's    *)
(* total, and its payment_status is completed; without payment information *)
(* it has no Transaction and its payment_status is pending.                *)
(***************************************************************************)
C17_PaymentTransaction ==
    [][CheckoutSucceeds =>
          \A o \in orders' \ orders :
             LET txns == {t \in transactions' : t.order = o.id} IN
             IF req[1].payment
             THEN /\ Cardinality(txns) = 1
                  /\ \A t \in txns : /\ t.transaction_type = "payment"
                                     /\ t.status = "completed"
                                     /\ t.amount = o.total_amount
                  /\ o.payment_status = "completed"
             ELSE /\ txns = {}
                  /\ o.payment_status = "pending"]_vars

\* a paid order of two lines is placed
C17_Witness ==
    /\ response.code = 201
    /\ \E o \in orders :
          /\ o.payment_status = "completed"
          /\ o.total_amount > o.subtotal
          /\ Cardinality({it \in orderItems : it.order = o.id}) = 2
          /\ \E t \in transactions : t.order = o.id /\ t.amount = o.total_amount


(***************************************************************************)
(* C18: a failure to append the initial status-history row or an initial   *)
(* delivery-event row during checkout is swallowed: the Order, its         *)
(* OrderItems, the stock decrements and the Transaction stay persisted and *)
(* the caller receives a success response.                                 *)
(***************************************************************************)
SideRecordFaults ==
    {"history", "event", "history_db", "event_db", "view_event"}

C18_SideRecordFailureSwallowed ==
    [][\A f \in SideRecordFaults :
          (pc[1] = "finish" /\ Checkout_finish(1, f))
             => /\ response'.code = 201
                /\ \E o \in orders' : o.id = cur[1].order
                /\ tx[1].items \subseteq orderItems'
                /\ \A pid \in DOMAIN tx[1].stock : products'[pid].quantity = tx[1].stock[pid]
                /\ req[1].payment => \E t \in transactions' : t.order = cur[1].order]_vars


(***************************************************************************)
(* C19: refund is all-or-nothing.  When a step of a refund fails, the      *)
(* insert of the refund Transaction, the save of the order or the insert   *)
(* of the status-history row, the transactions, the orders (status and     *)
(* payment_status) and the status history are as before the call.          *)
(***************************************************************************)
C19_RefundAllOrNothing ==
    [][\A oid \in OrderIdInputs, f \in RefundFaults : \A a \in RefundAmounts(oid) :
          (Idle /\ refund_order(oid, a, f) /\ response'.code # 200)
             => UNCHANGED <<orders, transactions, statusHistory>>]_vars


(***************************************************************************)
(* C20: over add-to-cart, quick-add and update-quantity calls interleaved  *)
(* with catalog price changes, a CartItem is created with the effective    *)
(* price then in force (the variant's price if set, else the product's)    *)
(* and its price_when_added never changes afterwards, for every            *)
(* non-negative price.                                                     *)
(***************************************************************************)
C20_PriceSnapshotKept ==
    [][\A n \in cartItems' :
          IF \E it \in cartItems : it.id = n.id
          THEN \A it \in cartItems : it.id = n.id => n.price_when_added = it.price_when_added
          ELSE n.price_when_added =
                  (IF n.variant # None THEN effective_price(n.variant)
                   ELSE products[n.product].price)]_vars

(***************************************************************************)
(* C21: add-to-cart and update-quantity hold the resulting quantity of an  *)
(* item against the variant's stock when the item has a variant and        *)
(* against the product's stock otherwise, and only for a product with      *)
(* track_quantity: no step leaves a created or changed item of a tracked   *)
(* product above that stock, and a well-formed add or update on an         *)
(* untracked product takes effect whatever the stock.                      *)
(***************************************************************************)
StockOf(it) ==
    IF it.variant # None THEN variants[it.variant].quantity
    ELSE products[it.product].quantity

C21_StockCheckedWhenTracked ==
    [][/\ \A n \in cartItems' \ cartItems :
             products[n.product].track_quantity => n.quantity <= StockOf(n)
       /\ \A in \in StockAddInputs, q \in StockQtyInputs :
             (/\ in[1] \in ProductIds /\ in[2] = None /\ q > 0 /\ q <= MAX_QUANTITY
              /\ products[in[1]].is_active /\ ~products[in[1]].track_quantity
              /\ AddToCart(1, in[1], in[2], q))
             => QtyOf(1, in[1], None)' = QtyOf(1, in[1], None) + q
       /\ \A id \in ItemIdInputs, q \in StockQtyInputs :
             (/\ q > 0 /\ q <= MAX_QUANTITY
              /\ \E it \in cartItems : it.id = id /\ it.user = 1
                                       /\ ~products[it.product].track_quantity
              /\ UpdateCartItem(1, id, q))
             => \E n \in cartItems' : n.id = id /\ n.quantity = q]_vars

\* an item with a variant above the product's own stock, and an untracked one above its stock
C21_Witness ==
    /\ \E it \in cartItems : /\ it.variant # None
                             /\ products[it.product].track_quantity
                             /\ it.quantity = variants[it.variant].quantity
                             /\ it.quantity > products[it.product].quantity
    /\ \E it \in cartItems : /\ ~products[it.product].track_quantity
                             /\ it.quantity > StockOf(it)

(***************************************************************************)
(* C22: update-quantity and remove on a CartItem that is not the caller's  *)
(* own, and cancel on an order that is not the caller's own, are answered  *)
(* with the one not-found response, whether the id belongs to another user *)
(* or to nothing, and change no cart item and no order.                    *)
(***************************************************************************)
NotFound(op) ==
    [op |-> op, code |-> 404, error |-> "not_found"]

C22_OwnDataOnly ==
    [][/\ \A u \in Users, id \in ItemIdInputs :
             (~\E it \in cartItems : it.id = id /\ it.user = u)
             => /\ UpdateCartItem(u, id, 2)
                      => response' = NotFound("update_item") /\ UNCHANGED cartVars
                /\ RemoveCartItem(u, id)
                      => response' = NotFound("remove_item") /\ UNCHANGED cartVars
       /\ \A u \in Users, oid \in CancelIdInputs :
             ((~\E o \in orders : o.id = oid /\ o.user = u) /\ OrderCancel(u, oid))
             => /\ response' = NotFound("cancel")
                /\ UNCHANGED <<orders, orderItems, transactions, statusHistory,
                               deliveryEvents>>]_vars

\* a remove answered not-found while every id tried is some customer's item
C22_Witness ==
    /\ response = NotFound("remove_item")
    /\ \A id \in ItemIdInputs : \E it \in cartItems : it.id = id
    /\ \E it \in cartItems : it.user = 1
    /\ \E it \in cartItems : it.user = 2

(***************************************************************************)
(* C23: with one checkout at a time, whatever the item lists (the same     *)
(* tracked product on several lines included), the stored quantity of      *)
(* every track_quantity product is never negative and always its initial   *)
(* quantity less the quantities of all persisted OrderItems of the         *)
(* product: no order item is persisted yet in the initial state, and every *)
(* step lowers the quantity by exactly what it adds in OrderItems.         *)
(***************************************************************************)
C23_StockLedger ==
    [][\A pid \in ProductIds :
          products[pid].track_quantity =>
             /\ products'[pid].quantity >= 0
             /\ products[pid].quantity - products'[pid].quantity =
                   SumQuantity({it \in orderItems' : it.product = pid})
                   - SumQuantity({it \in orderItems : it.product = pid})]_vars

\* two persisted orders, one with two lines of the tracked product 1, the stock lowered
C23_Witness ==
    /\ Idle
    /\ Cardinality(orders) > 1
    /\ products[1].track_quantity /\ products[1].quantity < MaxStock
    /\ \E a \in orderItems, b \in orderItems :
          a.id # b.id /\ a.order = b.order /\ a.product = 1 /\ b.product = 1

(***************************************************************************)
(* C24: in every reachable state each Order has at most one Transaction    *)
(* row, over checkouts with and without payment info and refunds.          *)
(***************************************************************************)
C24_OneTransactionPerOrder ==
    \A o \in orders : Cardinality({t \in transactions : t.order = o.id}) <= 1

\* the refund of a paid order was refused for the payment Transaction the order has
C24_Witness ==
    /\ response = [op |-> "refund", code |-> 500, error |-> "integrity"]
    /\ \E o \in orders : \E t \in transactions :
          t.order = o.id /\ t.transaction_type = "payment"

(***************************************************************************)
(* C25: every persisted order has subtotal, shipping_cost, tax_amount and  *)
(* total_amount all >= 0, whatever values an accepted checkout request     *)
(* supplies for them.                                                      *)
(***************************************************************************)
C25_MoneyNonNegative ==
    \A o \in orders :
        /\ o.subtotal >= 0
        /\ o.shipping_cost >= 0
        /\ o.tax_amount >= 0
        /\ o.total_amount >= 0

(***************************************************************************)
(* C26: once created, an OrderItem keeps its product_name, product_sku,    *)
(* unit_price, quantity and total_price through every later operation      *)
(* (admin update, cancel, refund, cart changes, catalog name, SKU and      *)
(* price changes), and total_price = unit_price x quantity holds for every *)
(* OrderItem in every reachable state.                                     *)
(***************************************************************************)
C26_OrderItemsFrozen ==
    [][/\ \A it \in orderItems : \E n \in orderItems' :
             /\ n.id = it.id
             /\ n.product_name = it.product_name /\ n.product_sku = it.product_sku
             /\ n.unit_price = it.unit_price /\ n.quantity = it.quantity
             /\ n.total_price = it.total_price
       /\ \A n \in orderItems' : n.total_price = n.unit_price * n.quantity]_vars

\* the order is refunded and the catalog no longer shows what its items recorded
C26_Witness ==
    /\ \E o \in orders : o.status = "refunded"
    /\ \E it \in orderItems :
          /\ it.variant # None /\ it.quantity = 1
          /\ it.product_name # products[it.product].name
          /\ it.product_sku # variants[it.variant].sku
          /\ it.unit_price # effective_price(it.variant)
    /\ \E it \in orderItems : it.quantity > 1 /\ it.total_price > it.unit_price
    /\ cartItems # {}

(***************************************************************************)
(* C27: a successful checkout leaves the new order with exactly one        *)
(* OrderStatusHistory row, of status pending, and exactly one initial      *)
(* DeliveryEvent, of type picked_up.                                       *)
(***************************************************************************)
RowsOf(log, oid) ==
    SelectSeq(log, LAMBDA row : row.order = oid)

C27_InitialSideRecords ==
    [][CheckoutSucceeds =>
          \A o \in orders' \ orders :
             /\ RowsOf(statusHistory', o.id) = <<[order |-> o.id, status |-> "pending"]>>
             /\ RowsOf(deliveryEvents', o.id) = <<[order |-> o.id, event_type |-> "picked_up"]>>]_vars

(***************************************************************************)
(* C28: over checkouts, admin updates, cancels and refunds in which no     *)
(* history insert fails, OrderStatusHistory rows are only ever appended    *)
(* (the rows already there stay as they are), every step appends exactly   *)
(* one row for each order it creates or whose status it changes and none   *)
(* otherwise, and the last row of every order names its current status.    *)
(***************************************************************************)
StatusChangedIn(n) ==
    \A o \in orders : o.id = n.id => o.status # n.status

C28_HistoryAppendOnly ==
    [][/\ Len(statusHistory') >= Len(statusHistory)
       /\ SubSeq(statusHistory', 1, Len(statusHistory)) = statusHistory
       /\ Len(statusHistory') - Len(statusHistory) =
             Cardinality({n \in orders' : StatusChangedIn(n)})
       /\ \A n \in orders' :
             LET rows == RowsOf(statusHistory', n.id) IN
             rows # <<>> /\ rows[Len(rows)].status = n.status]_vars

\* an order whose every status is in its history: placed, shipped, refunded
C28_Witness ==
    \E o \in orders :
        /\ o.status = "refunded"
        /\ Len(RowsOf(statusHistory, o.id)) = 3
        /\ RowsOf(statusHistory, o.id)[2].status = "shipped"

(***************************************************************************)
(* C29: refund and cancel leave every Product and ProductVariant stock     *)
(* quantity unchanged (nothing is restocked), and cancel also leaves the   *)
(* order's payment_status and its Transaction unchanged.                   *)
(***************************************************************************)
C29_NoRestock ==
    [][/\ (\E oid \in OrderIdInputs : \E a \in RefundAmounts(oid) : refund_order(oid, a, "none"))
             => UNCHANGED <<products, variants>>
       /\ \A u \in Users, oid \in OrderIdInputs :
             OrderCancel(u, oid)
             => /\ UNCHANGED <<products, variants, transactions>>
                /\ \A o \in orders : \E n \in orders' :
                      n.id = o.id /\ n.payment_status = o.payment_status]_vars

\* a paid order, its stock taken, is cancelled: still paid, its Transaction in place
C29_Witness ==
    /\ response = [op |-> "cancel", code |-> 200, error |-> ""]
    /\ products[1].quantity < MaxStock
    /\ \E o \in orders : /\ o.status = "cancelled" /\ o.payment_status = "completed"
                         /\ \E t \in transactions : t.order = o.id

(***************************************************************************)
(* C30: when add-to-cart or quick-add requests of one user for the same    *)
(* (product, variant) pair run at the same time, then once they have all   *)
(* ended there is exactly one CartItem for the pair, its quantity is the   *)
(* sum of the quantities the accepted requests added (no duplicate row, no *)
(* lost update), and it does not exceed the tracked stock.                 *)
(***************************************************************************)
C30_ConcurrentAddsAccumulate ==
    Idle =>
       \A pr \in Pairs :
          expectedQty[<<1, pr[1], pr[2]>>] > 0 =>
             /\ Cardinality(ItemsOf(1, pr[1], pr[2])) = 1
             /\ \A it \in ItemsOf(1, pr[1], pr[2]) :
                   /\ it.quantity = expectedQty[<<1, pr[1], pr[2]>>]
                   /\ products[pr[1]].track_quantity =>
                         it.quantity <= available_stock(pr[1], pr[2])

=========================================================================
